---- MODULE Spec2Model ----
(***************************************************************************)
(* Model of src/app.py: the decision pipeline of the 159941 ETF dashboard. *)
(*                                                                         *)
(* Numbers.  Python floats are modelled as exact rationals [n, d] with     *)
(* d > 0; the float NaN that pandas puts in the first window-1 rows of a   *)
(* rolling mean is [n |-> 0, d |-> 0] and Python's None is                 *)
(* [n |-> 0, d |-> -1].  Comparisons with NaN are false, as in IEEE 754.   *)
(* Binary rounding error of the floats is not modelled.                    *)
(*                                                                         *)
(* Formatted cells.  An f-string "{x:.kf}%" is modelled by what it does:   *)
(* it rounds x to k decimals (half to even); the cell is                   *)
(* [kind |-> "num", v |-> x * 10^k rounded].  The placeholders "-" and     *)
(* "--" and the text "nan" that formatting a NaN gives are cells of their  *)
(* own kind.                                                               *)
(*                                                                         *)
(* Dates.  A weekly bar's date is its day number; str(date).split()[0]     *)
(* keeps the calendar day, and the NAV map is keyed by the same text, so   *)
(* the key of a bar is its day number.                                     *)
(***************************************************************************)
EXTENDS Integers, Sequences, FiniteSets, TLC

VARIABLES
    f43,            \* the quote the price endpoint answers (0: no quote)
    valuation,      \* get_tiantian_valuation(): 0 when unavailable
    kline,          \* the provider's weekly bars, ascending by date
    nav_map,        \* get_historical_nav_map(): date -> NAV
    cost_input,     \* sidebar number_input, cost
    qty_input,      \* sidebar number_input, quantity
    refresh,        \* st.session_state['refresh']
    now,            \* wall clock, in ticks
    kline_cached,   \* st.cache_data holds an entry for get_kline_data()
    hist_df,        \* that entry: the frame get_kline_data() returned
    outcome,        \* what the last script run ended with
    df              \* the DataFrame the last script run rendered

vars == <<f43, valuation, kline, nav_map, cost_input, qty_input, refresh,
          now, kline_cached, hist_df, outcome, df>>

market == <<f43, valuation, kline, nav_map>>

-----------------------------------------------------------------------------
(* Program constants *)

window == 20
HistRange == 51
PremiumLimit == 1
DrawdownLimit == -8

(* Bounds of the model *)

MaxBars == 53
MaxClock == 2
TicksPerMinute == 2

-----------------------------------------------------------------------------
(* Float arithmetic *)

Rat(n, d) == [n |-> n, d |-> d]
NaN == [n |-> 0, d |-> 0]
None == [n |-> 0, d |-> -1]
R(i) == Rat(i, 1)

IsNum(x) == x.d > 0

FSub(a, b) == IF IsNum(a) /\ IsNum(b)
              THEN Rat(a.n * b.d - b.n * a.d, a.d * b.d) ELSE NaN

\* a / b for b # 0
FDiv(a, b) == IF ~(IsNum(a) /\ IsNum(b)) THEN NaN
              ELSE IF b.n > 0 THEN Rat(a.n * b.d, a.d * b.n)
              ELSE Rat(-(a.n * b.d), -(a.d * b.n))

FMul(a, k) == IF IsNum(a) THEN Rat(a.n * k, a.d) ELSE NaN

FGt(a, b) == IsNum(a) /\ IsNum(b) /\ a.n * b.d > b.n * a.d
FGe(a, b) == IsNum(a) /\ IsNum(b) /\ a.n * b.d >= b.n * a.d
FLe(a, b) == IsNum(a) /\ IsNum(b) /\ a.n * b.d <= b.n * a.d
FLt(a, b) == IsNum(a) /\ IsNum(b) /\ a.n * b.d < b.n * a.d

\* (a - b) / b * 100
Pct(a, b) == FMul(FDiv(FSub(a, b), b), 100)

\* Python truthiness of a float-or-None: None and 0.0 are false, NaN is true
Truthy(x) == x # None /\ ~(IsNum(x) /\ x.n = 0)

\* pd.notna
notna(x) == x # NaN /\ x # None

-----------------------------------------------------------------------------
(* Formatting *)

RECURSIVE Pow10(_)
Pow10(k) == IF k = 0 THEN 1 ELSE 10 * Pow10(k - 1)

\* x * 10^k rounded to an integer, ties to even
RoundHalfEven(x, k) ==
    LET num == 2 * x.n * Pow10(k) + x.d
        den == 2 * x.d
        q   == num \div den
    IN  IF num % den = 0 /\ q % 2 = 1 THEN q - 1 ELSE q

Cell(kind, v) == [kind |-> kind, v |-> v]
Dash == Cell("-", 0)
DoubleDash == Cell("--", 0)

\* f"{x:.kf}" (and f"{x:.kf}%")
Fmt(x, k) == IF x = NaN THEN Cell("nan", 0) ELSE Cell("num", RoundHalfEven(x, k))

strftime_Ticks(t) == t

\* datetime.now().strftime('%m-%d %H:%M'): the minute the run happens in
strftime(t) == t \div TicksPerMinute

-----------------------------------------------------------------------------
(* get_kline_data *)

RECURSIVE SumClose(_, _, _)
SumClose(bars, lo, hi) ==
    IF lo > hi THEN 0 ELSE bars[hi].close + SumClose(bars, lo, hi - 1)

\* hist_df['收盘'].rolling(window=20).mean() at row k, in the provider's order
RollingMean(bars, k) ==
    IF k < window THEN NaN
    ELSE Rat(SumClose(bars, k - window + 1, k), window)

\* a frame is a sequence of rows, held as an explicit tuple
Frame(f) == <<>> \o f

WithM20(bars) ==
    Frame([k \in 1..Len(bars) |->
        [date |-> bars[k].date, close |-> bars[k].close, M20 |-> RollingMean(bars, k)]])

\* sort_values(by='日期', ascending=False).reset_index(drop=True): the row
\* that lands at position i is the one with i - 1 rows dated after it
sort_values(rows) ==
    LET n == Len(rows)
        rank == Frame([k \in 1..n |->
                    1 + Cardinality({j \in 1..n :
                            \/ rows[j].date > rows[k].date
                            \/ rows[j].date = rows[k].date /\ j < k})])
    IN  Frame([i \in 1..n |-> rows[CHOOSE k \in 1..n : rank[k] = i]])

get_kline_data_SortFirst(bars) == WithM20(sort_values(bars))

\* the M20 column is computed first, the frame is sorted newest-first after
get_kline_data(bars) == sort_values(WithM20(bars))

-----------------------------------------------------------------------------
(* get_realtime_data *)

get_realtime_data_PriceBase(p, v) ==
    [price     |-> p,
     premium   |-> IF p > 0 /\ v > 0 THEN FMul(FDiv(FSub(R(p), R(v)), R(p)), 100) ELSE R(0),
     valuation |-> v]

get_realtime_data(p, v) ==
    [price     |-> p,
     premium   |-> IF p > 0 /\ v > 0 THEN Pct(R(p), R(v)) ELSE R(0),
     valuation |-> v]

-----------------------------------------------------------------------------
(* calculate_analysis *)

Reason(text, arg) == [text |-> text, arg |-> arg]
NoArg == Cell("", 0)

YesNo(b) == IF b THEN "yes" ELSE "no"

\* f"{(x - cost)/cost*100:.2f}%" if cost > 0 else "-"
ProfitStrZero(x, cost) ==
    IF cost > 0 THEN Fmt(Pct(x, R(cost)), 2) ELSE Fmt(R(0), 2)

ProfitStr(x, cost) ==
    IF cost > 0 THEN Fmt(Pct(x, R(cost)), 2) ELSE Dash

DrawdownHitStrict(price, cost) ==
    cost > 0 /\ FLt(Pct(R(price), R(cost)), R(DrawdownLimit))

\* cost > 0 and ((price - cost)/cost*100) <= -8.0
DrawdownHit(price, cost) ==
    cost > 0 /\ FLe(Pct(R(price), R(cost)), R(DrawdownLimit))

\* premium >= 1.0
PremiumHigh(premium) == FGe(premium, R(PremiumLimit))

Append4(r1, b1, r2, b2, r3, b3, r4, b4) ==
    (IF b1 THEN <<r1>> ELSE <<>>) \o (IF b2 THEN <<r2>> ELSE <<>>) \o
    (IF b3 THEN <<r3>> ELSE <<>>) \o (IF b4 THEN <<r4>> ELSE <<>>)

\* the realtime row; hist has at least two rows
RealtimeRow(rt, hist, cost, t) ==
    LET current_price == rt.price
        current_premium == rt.premium
        latest_k_m20 == hist[1].M20
        prev_k_m20   == hist[2].M20
        is_above_m20 == FGt(R(current_price), latest_k_m20)
        is_m20_up    == FGt(latest_k_m20, prev_k_m20)
        profit_str   == ProfitStr(R(current_price), cost)
        m20_diff_str == ProfitStr(latest_k_m20, cost)
        f1 == PremiumHigh(current_premium)
        f2 == ~is_above_m20
        f3 == ~is_m20_up
        f4 == DrawdownHit(current_price, cost)
        reasons == Append4(Reason("PremiumHigh", Fmt(current_premium, 2)), f1,
                           Reason("BelowM20", NoArg), f2,
                           Reason("M20NotUp", NoArg), f3,
                           Reason("LossOver8", NoArg), f4)
        can_buy == ~(f1 \/ f2 \/ f3 \/ f4)
    IN  [type    |-> "realtime",
         time    |-> strftime(t),
         premium |-> Fmt(current_premium, 3),
         price   |-> current_price,
         m20     |-> Fmt(latest_k_m20, 3),
         above   |-> YesNo(is_above_m20),
         m20_up  |-> YesNo(is_m20_up),
         profit  |-> profit_str,
         vs_m20  |-> m20_diff_str,
         verdict |-> IF can_buy THEN "FitsCondition" ELSE "NotFit",
         reason  |-> IF can_buy THEN <<>> ELSE reasons,
         is_buy  |-> can_buy]

HistoryPremiumAnyRow(i, raw_date, h_price, navs, current_valuation) ==
    IF raw_date \in DOMAIN navs
    THEN IF navs[raw_date] > 0 THEN Pct(R(h_price), R(navs[raw_date])) ELSE None
    ELSE IF current_valuation > 0
         THEN Pct(R(h_price), R(current_valuation))
         ELSE None

\* h_premium_val of history row i (0-based) dated raw_date
HistoryPremium(i, raw_date, h_price, navs, current_valuation) ==
    IF raw_date \in DOMAIN navs
    THEN IF navs[raw_date] > 0 THEN Pct(R(h_price), R(navs[raw_date])) ELSE None
    ELSE IF i = 0 /\ current_valuation > 0
         THEN Pct(R(h_price), R(current_valuation))
         ELSE None

HistoryM20UpGe(h_m20, prev_m20) ==
    IF Truthy(h_m20) /\ notna(prev_m20) THEN FGe(h_m20, prev_m20) ELSE FALSE

\* h_m20_up
HistoryM20Up(h_m20, prev_m20) ==
    IF Truthy(h_m20) /\ notna(prev_m20) THEN FGt(h_m20, prev_m20) ELSE FALSE

\* h_above_m20
HistoryAboveM20(h_price, h_m20) ==
    IF Truthy(h_m20) THEN FGt(R(h_price), h_m20) ELSE FALSE

\* history row i (0-based): hist[i+1] with hist[i+2] as its previous bar
HistoryRow(i, hist, navs, current_valuation, cost) ==
    LET row      == hist[i + 1]
        prev_row == hist[i + 2]
        raw_date == row.date
        h_price  == row.close
        h_m20    == IF notna(row.M20) THEN row.M20 ELSE None
        h_premium_val == HistoryPremium(i, raw_date, h_price, navs, current_valuation)
        h_premium_str == IF h_premium_val # None THEN Fmt(h_premium_val, 3) ELSE DoubleDash
        h_m20_up    == HistoryM20Up(h_m20, prev_row.M20)
        h_above_m20 == HistoryAboveM20(h_price, h_m20)
        h_prof == ProfitStr(R(h_price), cost)
        \* ... if cost > 0 and h_m20 else "-"
        h_diff == IF Truthy(h_m20) THEN ProfitStr(h_m20, cost) ELSE Dash
        f1 == h_premium_val # None /\ PremiumHigh(h_premium_val)
        f2 == ~h_above_m20
        f3 == ~h_m20_up
        f4 == DrawdownHit(h_price, cost)
        h_rsn == Append4(Reason("PremiumHigh", NoArg), f1,
                         Reason("BelowM20", NoArg), f2,
                         Reason("M20Down", NoArg), f3,
                         Reason("LossOver8", NoArg), f4)
        h_buy == ~(f1 \/ f2 \/ f3 \/ f4)
    IN  [type    |-> "history",
         time    |-> raw_date,
         premium |-> h_premium_str,
         price   |-> h_price,
         m20     |-> IF Truthy(h_m20) THEN Fmt(h_m20, 3) ELSE Dash,
         above   |-> YesNo(h_above_m20),
         m20_up  |-> YesNo(h_m20_up),
         profit  |-> h_prof,
         vs_m20  |-> h_diff,
         verdict |-> IF h_buy THEN "Fits" ELSE "NotFit",
         reason  |-> IF h_buy THEN <<>> ELSE h_rsn,
         is_buy  |-> h_buy]

\* for i in range(51): if i >= len(hist_df) - 1: break
HistoryCount(len) == IF len - 1 < HistRange THEN len - 1 ELSE HistRange

HistoryRows(hist, navs, current_valuation, cost) ==
    Frame([j \in 1..HistoryCount(Len(hist)) |->
        HistoryRow(j - 1, hist, navs, current_valuation, cost)])

\* What one call ends with: the frame it returns, or the exception it raises.
Returned(how, rows) == [how |-> how, rows |-> rows]

\* @st.cache_data: the stored frame while there is one, a fresh call otherwise
cached_kline_data == IF kline_cached THEN hist_df ELSE get_kline_data(kline)

\* calculate_analysis(cost, qty) run at time t, given the frame `hist` that
\* get_kline_data() answers when it is reached
calculate_analysis(cost, qty, t, hist) ==
    LET rt == get_realtime_data(f43, valuation)
    IN  IF rt.price = 0 THEN Returned("no_quote", <<>>)
        ELSE IF Len(hist) = 0 THEN Returned("no_kline", <<>>)
        \* hist_df.iloc[1] of a one-row frame
        ELSE IF Len(hist) < 2 THEN Returned("IndexError", <<>>)
        ELSE Returned("report",
                 <<RealtimeRow(rt, hist, cost, t)>> \o
                 HistoryRows(hist, nav_map, rt.valuation, cost))

-----------------------------------------------------------------------------
(* What the providers can answer *)

Quotes == {-1, 0, 92, 100, 101}
Valuations == {0, 100}
Costs == {0, 100}
Qtys == {0, 100}
Patterns == {"up", "down", "flat"}
NavKinds == {"none", "exact", "gap", "zero"}

Close(p, k) == CASE p = "up" -> 78 + k
                 [] p = "down" -> 112 - k
                 [] OTHER -> 100

\* n weekly bars, oldest first, one per date
Bars(p, n) == [k \in 1..n |-> [date |-> k, close |-> Close(p, k)]]

\* "none": the NAV fetch failed; "exact": NAV = close on every date;
\* "gap": the two newest dates are not published yet; "zero": the newest
\* date carries a NAV of 0
NavMap(kind, bars) ==
    LET n == Len(bars)
    IN  CASE kind = "none"  -> [d \in {} |-> 0]
          [] kind = "exact" -> [d \in 1..n |-> bars[d].close]
          [] kind = "gap"   -> [d \in 1..(n - 2) |-> bars[d].close - 2]
          [] OTHER          -> [d \in 1..n |-> IF d = n THEN 0 ELSE bars[d].close - 1]

-----------------------------------------------------------------------------
(* The script: every interaction reruns it from the top *)

Script(c, q, r) ==
    /\ cost_input' = c
    /\ qty_input' = q
    /\ refresh' = r
    /\ IF r
       THEN LET hist == cached_kline_data
                res == calculate_analysis(c, q, now, hist)
            IN  /\ outcome' = res.how
                /\ df' = res.rows
                \* get_kline_data() is reached only past the quote check
                /\ IF res.how = "no_quote"
                   THEN UNCHANGED <<kline_cached, hist_df>>
                   ELSE kline_cached' = TRUE /\ hist_df' = hist
       ELSE /\ outcome' = "idle"
            /\ df' = <<>>
            /\ UNCHANGED <<kline_cached, hist_df>>
    /\ UNCHANGED <<market, now>>

Init ==
    /\ \E p \in Patterns, n \in 0..MaxBars, k \in NavKinds :
          /\ f43 \in Quotes
          /\ valuation \in Valuations
          \* histories around the M20 window with every quote or every NAV
          \* map, and rising histories of every length up to MaxBars
          /\ \/ n \in (window - 1)..(window + 1) /\ k = "exact"
             \/ n \in (window - 1)..(window + 1) /\ f43 = 100
             \/ p = "up" /\ f43 = 100 /\ valuation = 100 /\ k = "exact"
          /\ kline = Bars(p, n)
          /\ nav_map = NavMap(k, Bars(p, n))
    /\ cost_input = 0
    /\ qty_input = 0
    /\ refresh = FALSE
    /\ now = 0
    /\ kline_cached = FALSE
    /\ hist_df = <<>>
    /\ outcome = "idle"
    /\ df = <<>>

SetCost == \E c \in Costs \ {cost_input} : Script(c, qty_input, refresh)

SetQty == \E q \in Qtys \ {qty_input} : Script(cost_input, q, refresh)

ClickRefresh == Script(cost_input, qty_input, TRUE)

Tick ==
    /\ now < MaxClock
    /\ now' = now + 1
    /\ UNCHANGED <<market, cost_input, qty_input, refresh, kline_cached,
                   hist_df, outcome, df>>

Next == SetCost \/ SetQty \/ ClickRefresh \/ Tick

Spec == Init /\ [][Next]_vars

-----------------------------------------------------------------------------
(* The facts a record is judged on, read from the inputs of the run.        *)
(* Row 1 of df is the realtime record; row r >= 2 is history record r - 2,  *)
(* built from bar r - 1 of the newest-first frame with bar r as previous.   *)

Reported == outcome = "report"

Defined(m) == m.d > 0

RowPrice(r) == IF r = 1 THEN f43 ELSE hist_df[r - 1].close
OwnM20(r)   == IF r = 1 THEN hist_df[1].M20 ELSE hist_df[r - 1].M20
PrevM20(r)  == IF r = 1 THEN hist_df[2].M20 ELSE hist_df[r].M20

\* the value the premium of row r is measured against; 0: none, premium unknown
RefValue(r) ==
    IF r = 1 THEN valuation
    ELSE LET d == hist_df[r - 1].date
         IN  IF d \in DOMAIN nav_map THEN nav_map[d]
             ELSE IF r = 2 THEN valuation ELSE 0

PremiumViolated(r) ==
    /\ RefValue(r) > 0
    /\ (RowPrice(r) - RefValue(r)) * 100 >= PremiumLimit * RefValue(r)

BelowM20Violated(r) ==
    \/ ~Defined(OwnM20(r))
    \/ RowPrice(r) * OwnM20(r).d <= OwnM20(r).n

TrendViolated(r) ==
    \/ ~Defined(OwnM20(r))
    \/ ~Defined(PrevM20(r))
    \/ OwnM20(r).n * PrevM20(r).d <= PrevM20(r).n * OwnM20(r).d

DrawdownViolated(r) ==
    /\ cost_input > 0
    /\ (RowPrice(r) - cost_input) * 100 <= DrawdownLimit * cost_input

RuleViolated(r, k) ==
    CASE k = 1 -> PremiumViolated(r)
      [] k = 2 -> BelowM20Violated(r)
      [] k = 3 -> TrendViolated(r)
      [] OTHER -> DrawdownViolated(r)

\* the violated rules of row r, in the order premium, below-M20, trend, drawdown
ViolatedRules(r) == SelectSeq(<<1, 2, 3, 4>>, LAMBDA k : RuleViolated(r, k))

RuleOf(text) ==
    CASE text = "PremiumHigh" -> 1
      [] text = "BelowM20" -> 2
      [] text \in {"M20NotUp", "M20Down"} -> 3
      [] OTHER -> 4

ReasonRules(row) == [k \in 1..Len(row.reason) |-> RuleOf(row.reason[k].text)]

HasReason(row, text) == \E k \in 1..Len(row.reason) : row.reason[k].text = text

-----------------------------------------------------------------------------
\* C1: every record of a report passes (is_buy) iff none of the four rules
\* is violated (premium known and >= 1.0; price <= M20 or M20 undefined;
\* M20 <= previous M20 or either undefined; with unit cost > 0, profit
\* <= -8.0, the boundary included), and its reasons are exactly the violated
\* rules, one entry each, in the order premium, below-M20, trend, drawdown,
\* so they are empty iff the record passes.
C1_VerdictIffNoRuleViolated ==
    Reported =>
        \A r \in 1..Len(df) :
            /\ df[r].is_buy = (ViolatedRules(r) = <<>>)
            /\ ReasonRules(df[r]) = ViolatedRules(r)
            /\ (df[r].reason = <<>>) = df[r].is_buy

\* a report holding a record that breaks all four rules and one that passes
C1_Witness ==
    /\ Reported
    /\ \E r \in 1..Len(df) : Len(df[r].reason) = 4
    /\ \E r \in 1..Len(df) : df[r].is_buy

-----------------------------------------------------------------------------
\* C9: in every record m20Trending is false whenever the record's own M20
\* or the previous bar's M20 is undefined and is otherwise true iff
\* M20 > previous M20; aboveM20 is false whenever M20 is undefined, and such
\* a record does not pass.
C9_TrendNeedsBothM20 ==
    Reported =>
        \A r \in 1..Len(df) :
            LET own == OwnM20(r)
                prev == PrevM20(r)
            IN  /\ (~Defined(own) \/ ~Defined(prev)) => df[r].m20_up = "no"
                /\ (Defined(own) /\ Defined(prev)) =>
                       ((df[r].m20_up = "yes") = (own.n * prev.d > prev.n * own.d))
                /\ ~Defined(own) => (df[r].above = "no" /\ ~df[r].is_buy)

\* a report with a history record whose own M20 exists and whose previous
\* bar has none, next to a record whose M20 rose
C9_Witness ==
    /\ Reported
    /\ \E r \in 2..Len(df) : Defined(OwnM20(r)) /\ ~Defined(PrevM20(r))
    /\ \E r \in 1..Len(df) : df[r].m20_up = "yes"

-----------------------------------------------------------------------------
\* the closes of the m bars ending at bar k of the provider's series
RECURSIVE ClosesBefore(_, _)
ClosesBefore(k, m) ==
    IF m = 0 THEN 0 ELSE kline[k - m + 1].close + ClosesBefore(k, m - 1)

\* the place of the bar dated d in the provider's ascending series
BarAt(d) == CHOOSE k \in 1..Len(kline) : kline[k].date = d

\* C8: in the frame get_kline_data returns for an ascending weekly series,
\* the M20 of bar i is the mean of the 20 closes close[i-19..i] when 20 bars
\* exist up to i and undefined otherwise (19 bars: none defined; 20 bars:
\* only the newest), and after the newest-first sort every M20 is still on
\* the row of its own bar.
C8_M20IsMeanOfLast20 ==
    kline_cached =>
        /\ Len(hist_df) = Len(kline)
        /\ \A j \in 1..Len(hist_df) :
              LET k == BarAt(hist_df[j].date)
                  m == hist_df[j].M20
              IN  /\ j = Len(kline) + 1 - k
                  /\ hist_df[j].close = kline[k].close
                  /\ IF k >= window
                     THEN Defined(m) /\ m.n * window = m.d * ClosesBefore(k, window)
                     ELSE m = NaN
        /\ Len(kline) = window - 1 =>
              \A j \in 1..Len(hist_df) : ~Defined(hist_df[j].M20)
        /\ Len(kline) = window =>
              \A j \in 1..Len(hist_df) : Defined(hist_df[j].M20) = (j = 1)

\* the frame of a history of exactly 20 bars, whose newest bar has an M20
C8_Witness ==
    /\ kline_cached
    /\ Len(kline) = window
    /\ Defined(hist_df[1].M20)
    /\ ~Defined(hist_df[2].M20)

-----------------------------------------------------------------------------
\* the window the source names for the history part
\* ("历史行 (50周)", "过去50周")
WindowSize == 50

Min(a, b) == IF a < b THEN a ELSE b

\* C2: a report has the realtime record first, then at most WindowSize = 50
\* history records in strictly descending date order, history record i
\* judged against bar i+1 as its previous bar, the history part being cut to
\* the bars that have a previous bar when fewer than WindowSize+1 exist.
C2_AtMostWindowSizeHistoryRows ==
    Reported =>
        /\ df[1].type = "realtime"
        /\ \A r \in 2..Len(df) : df[r].type = "history"
        /\ \A r \in 3..Len(df) : df[r - 1].time > df[r].time
        /\ \A r \in 2..Len(df) :
              /\ df[r].time = hist_df[r - 1].date
              /\ (df[r].m20_up = "yes") = ~TrendViolated(r)
        /\ Len(df) - 1 = Min(WindowSize, Len(kline) - 1)
        /\ Len(df) - 1 <= WindowSize

-----------------------------------------------------------------------------
\* C3: with a positive live price and a non-empty weekly history, of one bar
\* or more, calculate_analysis does not raise and returns a report.
C3_ReportForEveryNonEmptyHistory ==
    (refresh /\ f43 > 0 /\ Len(kline) >= 1) => Reported

-----------------------------------------------------------------------------
\* C4: whenever the live price is zero or negative, or the weekly history
\* is empty, calculate_analysis returns the empty frame and builds no
\* record.
C4_EmptyWhenNoPriceOrNoHistory ==
    (refresh /\ (f43 <= 0 \/ Len(kline) = 0)) =>
        (outcome \in {"no_quote", "no_kline"} /\ df = <<>>)

-----------------------------------------------------------------------------
Abs(x) == IF x < 0 THEN -x ELSE x

\* cell shows (p - ref) / ref * 100 to k decimals: within half a unit of
\* the last decimal shown
ShowsPct(cell, p, ref, k) ==
    /\ cell.kind = "num"
    /\ 2 * Abs(cell.v * ref - (p - ref) * 100 * Pow10(k)) <= ref

\* C5: a history record dated d takes its premium from the NAV map's entry
\* for d when there is one (unknown when that NAV is not positive, and never
\* the live valuation); with no entry, the newest record (i = 0) takes it
\* from a live valuation > 0; an older record (i >= 1) with no entry has an
\* unknown premium and no premium failure reason.
C5_PremiumSource ==
    Reported =>
        \A r \in 2..Len(df) :
            LET i == r - 2
                d == df[r].time
                p == df[r].price
            IN  /\ p = kline[BarAt(d)].close
                /\ d \in DOMAIN nav_map =>
                      IF nav_map[d] > 0
                      THEN ShowsPct(df[r].premium, p, nav_map[d], 3)
                      ELSE df[r].premium = DoubleDash
                /\ (d \notin DOMAIN nav_map /\ i = 0) =>
                      IF valuation > 0
                      THEN ShowsPct(df[r].premium, p, valuation, 3)
                      ELSE df[r].premium = DoubleDash
                /\ (d \notin DOMAIN nav_map /\ i >= 1) =>
                      /\ df[r].premium = DoubleDash
                      /\ ~HasReason(df[r], "PremiumHigh")

\* a report whose two newest dates have no NAV entry while the live
\* valuation is known: the newest shows a premium, the next shows none
C5_Witness ==
    /\ Reported
    /\ valuation > 0
    /\ Len(df) >= 3
    /\ df[2].time \notin DOMAIN nav_map
    /\ df[3].time \notin DOMAIN nav_map
    /\ df[2].premium.kind = "num"
    /\ df[3].premium = DoubleDash

-----------------------------------------------------------------------------
NoProfitShown(row) ==
    /\ row.profit = Dash
    /\ row.vs_m20 = Dash
    /\ ~HasReason(row, "LossOver8")

\* C6 as claimed: with unit cost <= 0 or quantity <= 0 every record shows
\* the placeholder for both profit figures and has no drawdown failure.
C6_InactiveWithoutQuantity ==
    (Reported /\ (cost_input <= 0 \/ qty_input <= 0)) =>
        \A r \in 1..Len(df) : NoProfitShown(df[r])

\* C6 as amended: the unit cost alone decides.  With unit cost <= 0 every
\* record shows the placeholder for both profit figures and has no drawdown
\* failure; with unit cost > 0, whatever the quantity, every record shows a
\* profit number and fails the drawdown rule iff profit <= -8.0.
C6_CostAloneDecides ==
    Reported =>
        \A r \in 1..Len(df) :
            IF cost_input <= 0
            THEN NoProfitShown(df[r])
            ELSE /\ ShowsPct(df[r].profit, df[r].price, cost_input, 2)
                 /\ HasReason(df[r], "LossOver8") = DrawdownViolated(r)

\* a report made with no unit cost and a positive quantity
C6_Witness ==
    /\ Reported
    /\ cost_input <= 0
    /\ qty_input > 0
    /\ Len(df) > 1

-----------------------------------------------------------------------------
\* C7 as claimed: the realtime record shows (price - valuation) / valuation
\* * 100 when the live valuation is > 0 and shows no number when it is not.
C7_UnknownWithoutValuation ==
    (Reported /\ f43 > 0) =>
        IF valuation > 0
        THEN ShowsPct(df[1].premium, f43, valuation, 3)
        ELSE df[1].premium.kind # "num"

\* C7 as amended: the realtime record shows (price - valuation) / valuation
\* * 100 when the live price and the live valuation are both > 0; otherwise
\* it shows the number 0 (0.000%), and the premium rule does not fail.
C7_ZeroWithoutValuation ==
    Reported =>
        IF f43 > 0 /\ valuation > 0
        THEN ShowsPct(df[1].premium, f43, valuation, 3)
        ELSE /\ df[1].premium = Cell("num", 0)
             /\ ~HasReason(df[1], "PremiumHigh")

\* a report made with a live price and no live valuation
C7_Witness ==
    /\ Reported
    /\ f43 > 0
    /\ valuation <= 0
    /\ df[1].premium.kind = "num"

-----------------------------------------------------------------------------
\* a step that runs the script again on the inputs of the run before it
SameInputsRerun ==
    /\ refresh /\ refresh'
    /\ now' = now
    /\ cost_input' = cost_input
    /\ qty_input' = qty_input
    /\ market' = market

Unlabelled(row) == [row EXCEPT !.time = 0]

\* C10 as claimed: two runs on identical inputs give identical record
\* sequences, the realtime period label included, whenever they happen.
C10_IdenticalWhenever == [][SameInputsRerun => df' = df]_vars

\* C10 as amended: two runs on identical inputs end the same way and give
\* record sequences that agree field for field except for the realtime
\* record's period label, which is the minute the run happens in; runs in
\* the same minute are identical.
C10_IdenticalButLabel ==
    [][SameInputsRerun =>
          /\ outcome' = outcome
          /\ Len(df') = Len(df)
          /\ \A r \in 1..Len(df) :
                IF r = 1 THEN Unlabelled(df'[r]) = Unlabelled(df[r])
                ELSE df'[r] = df[r]
          /\ outcome' = "report" =>
                /\ df'[1].time * TicksPerMinute <= now'
                /\ now' < (df'[1].time + 1) * TicksPerMinute
                /\ df'[1].time = df[1].time => df' = df]_vars

\* a report on screen after the clock has left the minute it was made in:
\* the next run on the same inputs is labelled otherwise
C10_Witness ==
    /\ Reported
    /\ (df[1].time + 1) * TicksPerMinute <= now

=============================================================================
